---- MODULE Spec2Model ----
(***************************************************************************)
(* Model of prysm/experimental/pdi.py: the rectangular pulse, the PS/PDI   *)
(* forward model, de Groot's PSI formalism and the arm matching            *)
(* diagnostic.                                                             *)
(*                                                                         *)
(* Numbers.  numpy's floats are modelled by exact arithmetic in Q(sqrt 2): *)
(* <<a, b, d>> with d > 0 is (a + b*sqrt(2))/d in lowest terms.  This field *)
(* holds the sines and cosines of every multiple of pi/4.  d = 0 marks the *)
(* non-finite floats: <<0,0,0>> is nan, <<1,0,0>> is +inf, <<-1,0,0>> is   *)
(* -inf.  Rounding error is not modelled.                                  *)
(*                                                                         *)
(* Coordinates.  Lengths handed to rectangle_pulse are counted in units of *)
(* 2^-53, so that the float64 machine epsilon 2^-52 is the number 2.       *)
(*                                                                         *)
(* Angles are kept as their coefficient of pi: the angle t*pi is the       *)
(* number t.                                                               *)
(***************************************************************************)
EXTENDS Integers, Sequences, FiniteSets, TLC

VARIABLES pulseIn, pulseOut, psiIn, psiOut, psiCut, ctor, pspdi, calls

pulseVars == <<pulseIn, pulseOut>>

psiVars == <<psiIn, psiOut, psiCut>>

pdiVars == <<ctor, pspdi, calls>>

------------------------------------------------------------------------------
(* Exact arithmetic standing for numpy's float arithmetic.                 *)

IAbs(n) == IF n < 0 THEN -n ELSE n

RECURSIVE GCD(_, _)
GCD(m, n) == IF n = 0 THEN m ELSE GCD(n, m % n)

NaN == <<0, 0, 0>>

PosInf == <<1, 0, 0>>

NegInf == <<-1, 0, 0>>

IsFinite(x) == x[3] # 0

IsNaN(x) == x = NaN

Norm(a, b, d) ==
    LET s == IF d < 0 THEN -1 ELSE 1
        g == GCD(GCD(IAbs(a), IAbs(b)), IAbs(d))
    IN  IF d = 0 THEN NaN ELSE <<(s * a) \div g, (s * b) \div g, (s * d) \div g>>

Num(n) == <<n, 0, 1>>

Rat(n, d) == Norm(n, 0, d)

Zero == Num(0)

One == Num(1)

Half == Rat(1, 2)

Sqrt2 == <<0, 1, 1>>

\* sign of a + b*sqrt(2)
SgnAB(a, b) ==
    IF a >= 0 /\ b >= 0 THEN (IF a = 0 /\ b = 0 THEN 0 ELSE 1)
    ELSE IF a <= 0 /\ b <= 0 THEN -1
    ELSE IF a > 0 THEN (IF a * a > 2 * b * b THEN 1 ELSE -1)
    ELSE (IF 2 * b * b > a * a THEN 1 ELSE -1)

Sgn(x) == SgnAB(x[1], x[2])

Add(x, y) ==
    IF ~IsFinite(x) \/ ~IsFinite(y) THEN NaN
    ELSE Norm(x[1] * y[3] + y[1] * x[3], x[2] * y[3] + y[2] * x[3], x[3] * y[3])

Neg(x) == IF ~IsFinite(x) THEN <<-x[1], 0, 0>> ELSE <<-x[1], -x[2], x[3]>>

Sub(x, y) == Add(x, Neg(y))

Mul(x, y) ==
    IF ~IsFinite(x) \/ ~IsFinite(y) THEN NaN
    ELSE Norm(x[1] * y[1] + 2 * x[2] * y[2], x[1] * y[2] + x[2] * y[1], x[3] * y[3])

\* numpy float division: x/0 is nan for x = 0 and a signed infinity otherwise
Div(x, y) ==
    IF ~IsFinite(x) \/ ~IsFinite(y) THEN NaN
    ELSE IF Sgn(y) = 0 THEN <<Sgn(x), 0, 0>>
    ELSE LET n == y[1] * y[1] - 2 * y[2] * y[2]
             c == <<y[3] * y[1], -(y[3] * y[2]), n>>
         IN  Mul(x, Norm(c[1], c[2], c[3]))

\* comparisons with nan are False, as in IEEE 754
Less(x, y) == IsFinite(x) /\ IsFinite(y) /\ Sgn(Sub(y, x)) = 1

LessEq(x, y) == IsFinite(x) /\ IsFinite(y) /\ Sgn(Sub(y, x)) >= 0

Abs(x) == IF IsFinite(x) /\ Sgn(x) < 0 THEN Neg(x) ELSE x

\* floor of a rational
Floor(x) == CASE IsFinite(x) /\ x[2] = 0 -> Num(x[1] \div x[3])

\* np.mod: the result takes the sign of the divisor; x mod 0 is nan
NpMod(x, p) ==
    IF ~IsFinite(x) \/ ~IsFinite(p) \/ Sgn(p) = 0 THEN NaN
    ELSE Sub(x, Mul(p, Floor(Div(x, p))))

\* np.finfo(float64).eps = 2^-52, in units of 2^-53
Eps == 2

------------------------------------------------------------------------------
(* rectangle_pulse, one element of the array at a time.                    *)

\* rectangle_pulse_at without the midpoint case
rectangle_pulse_at_nomid(x, duty, amplitude, offset, period) ==
    LET xwrapped == NpMod(x, period)
        mask == Less(xwrapped, Mul(duty, period))
    IN  IF mask THEN Add(offset, amplitude) ELSE Sub(offset, amplitude)

rectangle_pulse_at(x, duty, amplitude, offset, period) ==
    LET xwrapped == NpMod(x, period)
        mask == Less(xwrapped, Mul(duty, period))
        mask2 == ~mask
        mask3 == Less(Abs(xwrapped), Num(Eps))
        hi == Add(offset, amplitude)
        lo == Sub(offset, amplitude)
        mid == offset
        y0 == Zero
        y1 == IF mask THEN hi ELSE y0
        y2 == IF mask2 THEN lo ELSE y1
        y3 == IF mask3 THEN mid ELSE y2
    IN  y3

rectangle_pulse(x, duty, amplitude, offset, period) ==
    [i \in DOMAIN x |-> rectangle_pulse_at(x[i], duty, amplitude, offset, period)]

------------------------------------------------------------------------------
(* Trigonometry at the multiples of pi/4, and np.arctan2.                  *)

\* cos(t*pi) for t a multiple of 1/4
CosPi(t) ==
    LET k == (Mul(t, Num(4))[1]) % 8
    IN  CASE IsFinite(t) /\ Mul(t, Num(4))[3] = 1 /\ t[2] = 0 ->
             CASE k = 0 -> One
               [] k = 1 -> <<0, 1, 2>>
               [] k = 2 -> Zero
               [] k = 3 -> <<0, -1, 2>>
               [] k = 4 -> Num(-1)
               [] k = 5 -> <<0, -1, 2>>
               [] k = 6 -> Zero
               [] k = 7 -> <<0, 1, 2>>

\* sin(t*pi) for t a multiple of 1/4
SinPi(t) == CosPi(Sub(t, Half))

\* np.arctan2(y, x) as a bracket [lo, hi] of the coefficient of pi: lo = hi
\* when the angle is an exact multiple of pi/4, otherwise the angle lies
\* strictly between lo and hi, two neighbouring multiples of pi/4.
Arctan2(y, x) ==
    LET sy == Sgn(y)
        sx == Sgn(x)
        ay == Abs(y)
        ax == Abs(x)
        \* the angle of (|x|, |y|) in eighths of pi: 0, 1, 2, 3 or 4
        q == IF sy = 0 THEN 0
             ELSE IF sx = 0 THEN 4
             ELSE IF Less(ay, ax) THEN 1
             ELSE IF Less(ax, ay) THEN 3
             ELSE 2
        e == IF sx >= 0 THEN q ELSE 8 - q
        lo == IF e % 2 = 0 THEN e ELSE e - 1
        hi == IF e % 2 = 0 THEN e ELSE e + 1
    IN  IF ~IsFinite(y) \/ ~IsFinite(x) THEN [lo |-> NaN, hi |-> NaN]
        ELSE IF sy >= 0 THEN [lo |-> Rat(lo, 8), hi |-> Rat(hi, 8)]
        ELSE [lo |-> Rat(-hi, 8), hi |-> Rat(-lo, 8)]

------------------------------------------------------------------------------
(* The predefined formalism and de Groot's PSI formalism.                  *)

\* fftrange(n): the n sample indices 0 .. n-1
fftrange(n) == [i \in 1..n |-> i - 1]

\* the shifts as coefficients of pi
SCHWIDER_SHIFTS == [i \in 1..5 |-> Mul(Num(fftrange(5)[i]), Rat(1, 4))]

SCHWIDER_SS == <<0, 2, 0, -2, 0>>

SCHWIDER_CS == <<-1, 0, 2, 0, -1>>

\* a frame is a bare array (rd = FALSE, no metadata) or a RichData
Frame(rd, data, dx, wavelength) ==
    [rd |-> rd, data |-> data, dx |-> dx, wavelength |-> wavelength]

BareArray(data) == Frame(FALSE, data, Zero, Zero)

zeros_like(a) == [i \in DOMAIN a |-> Zero]

ArrAdd(a, b) == [i \in DOMAIN a |-> Add(a[i], b[i])]

ArrScale(w, a) == [i \in DOMAIN a |-> Mul(Num(w), a[i])]

MinLen(a, b, c) ==
    LET m == IF Len(a) < Len(b) THEN Len(a) ELSE Len(b)
    IN  IF m < Len(c) THEN m ELSE Len(c)

\* the loop with the terms of weight zero computed like the others
RECURSIVE WeightedSumNoSkip(_, _, _, _, _)
WeightedSumNoSkip(data, w, n, m, acc) ==
    IF m > n THEN acc
    ELSE WeightedSumNoSkip(data, w, n, m + 1, ArrAdd(acc, ArrScale(w[m], data[m])))

\* the loop over zip(gs, ss, cs), for one of the two sums: terms of weight
\* zero are skipped
RECURSIVE WeightedSum(_, _, _, _, _)
WeightedSum(data, w, n, m, acc) ==
    IF m > n THEN acc
    ELSE WeightedSum(data, w, n, m + 1,
                     IF w[m] # 0 THEN ArrAdd(acc, ArrScale(w[m], data[m])) ELSE acc)

degroot_formalism_psi(gs, ss, cs) ==
    IF Len(gs) = 0
    THEN [raised |-> "IndexError", num |-> <<>>, den |-> <<>>, out |-> BareArray(<<>>)]
    ELSE LET was_rd == gs[1].rd
             g00 == gs[1]
             data == [m \in DOMAIN gs |-> gs[m].data]
             n == MinLen(gs, ss, cs)
             num == WeightedSum(data, ss, n, 1, zeros_like(data[1]))
             den == WeightedSum(data, cs, n, 1, zeros_like(data[1]))
             out == [i \in DOMAIN num |-> Arctan2(num[i], den[i])]
         IN  [raised |-> "none", num |-> num, den |-> den,
              out |-> IF was_rd THEN Frame(TRUE, out, g00.dx, g00.wavelength)
                      ELSE BareArray(out)]

------------------------------------------------------------------------------
(* Strings are sequences of characters, so that str.lower() is computed.   *)

LowerOf ==
    [A |-> "a", B |-> "b", C |-> "c", D |-> "d", E |-> "e", F |-> "f", G |-> "g",
     H |-> "h", I |-> "i", J |-> "j", K |-> "k", L |-> "l", M |-> "m", N |-> "n",
     O |-> "o", P |-> "p", Q |-> "q", R |-> "r", S |-> "s", T |-> "t", U |-> "u",
     V |-> "v", W |-> "w", X |-> "x", Y |-> "y", Z |-> "z"]

lower(s) == [i \in DOMAIN s |-> IF s[i] \in DOMAIN LowerOf THEN LowerOf[s[i]] ELSE s[i]]

Str_ronchi == <<"r", "o", "n", "c", "h", "i">>

Str_sin_amp == <<"s", "i", "n", "_", "a", "m", "p">>

Str_x == <<"x">>

Str_y == <<"y">>

------------------------------------------------------------------------------
(* Two-dimensional arrays are sequences of rows.                           *)

\* the sequence s itself, with its elements computed once
Array(s) == s \o <<>>

Map2(a, F(_)) ==
    Array([r \in DOMAIN a |-> Array([c \in DOMAIN a[r] |-> F(a[r][c])])])

Zip2(a, b, F(_, _)) ==
    Array([r \in DOMAIN a |-> Array([c \in DOMAIN a[r] |-> F(a[r][c], b[r][c])])])

RECURSIVE SumSeq(_)
SumSeq(s) == IF Len(s) = 0 THEN Zero ELSE Add(s[1], SumSeq(Tail(s)))

Sum2(a) == SumSeq([r \in DOMAIN a |-> SumSeq(a[r])])

Size2(a) == IF Len(a) = 0 THEN 0 ELSE Len(a) * Len(a[1])

\* ndarray.mean()
Mean2(a) == Div(Sum2(a), Num(Size2(a)))

------------------------------------------------------------------------------
(* The collaborators of pdi.py: coordinate grids, the circular mask, the   *)
(* Wavefront and its focal plane round trip, on the smallest grid.         *)

\* make_xy_grid(samples, diameter=...): samples x samples coordinates spaced
\* diameter/samples apart, the sample of index samples div 2 at the origin
make_xy_grid(samples, diameter) ==
    LET dx == Div(diameter, Num(samples))
        at(i) == Mul(Num(i - 1 - (samples \div 2)), dx)
    IN  [x |-> Array([r \in 1..samples |-> Array([c \in 1..samples |-> at(c)])]),
         y |-> Array([r \in 1..samples |-> Array([c \in 1..samples |-> at(r)])])]

\* circle(radius_sq, rsq): 1 where rsq <= radius_sq, 0 elsewhere
circle(radius_sq, rsq) ==
    Map2(rsq, LAMBDA v : IF LessEq(v, radius_sq) THEN One ELSE Zero)

\* a Wavefront (wf = TRUE) or a bare array (wf = FALSE, no metadata)
WF(data, wavelength, dx) == [wf |-> TRUE, data |-> data, wavelength |-> wavelength, dx |-> dx]

Bare2(data) == [wf |-> FALSE, data |-> data, wavelength |-> Zero, dx |-> Zero]

NoWF == Bare2(<<>>)

\* wave_in * grating: a Wavefront stays one, an array stays an array
TimesArray(w, a) == [w EXCEPT !.data = Zip2(w.data, a, Mul)]

\* Wavefront * scalar
TimesScalar(w, t) == [w EXCEPT !.data = Map2(w.data, LAMBDA v : Mul(v, t))]

\* Wavefront + Wavefront
PlusWF(a, b) == [a EXCEPT !.data = Zip2(a.data, b.data, Add)]

\* Wavefront.intensity: the squared magnitude, as a data container
intensity(w) == [data |-> Map2(w.data, LAMBDA v : Mul(v, v)), dx |-> w.dx,
                 wavelength |-> w.wavelength]

\* the kernel of the two-point Fourier transform: focal sample 2 is the zero
\* frequency, focal sample 1 the other frequency of the two-point grid
Kernel(k, j) == IF k = 2 THEN 1 ELSE (IF j = 2 THEN 1 ELSE -1)

\* the focal sample seen at index k of a window moved by the shift s
Seen(k, s) == IF Sgn(s) = 0 THEN k ELSE 3 - k

\* Wavefront.to_fpm_and_back(efl, fpm, fpm_dx, shift, return_more=True):
\* propagate to the focal plane sampled every fpm_dx about the shift, multiply
\* by the mask, propagate back
to_fpm_and_back(w, efl, fpm, fpm_dx, shift) ==
    LET f == w.data
        focal(r, c) ==
            SumSeq([j \in 1..4 |->
                LET rr == ((j - 1) \div 2) + 1
                    cc == ((j - 1) % 2) + 1
                IN  Mul(Num(Kernel(Seen(r, shift[2]), rr) * Kernel(Seen(c, shift[1]), cc)),
                        f[rr][cc])])
        at_fpm == Array([r \in 1..2 |-> Array([c \in 1..2 |-> focal(r, c)])])
        after_fpm == Zip2(at_fpm, fpm, Mul)
        back(rr, cc) ==
            Div(SumSeq([j \in 1..4 |->
                    LET r == ((j - 1) \div 2) + 1
                        c == ((j - 1) % 2) + 1
                    IN  Mul(Num(Kernel(Seen(r, shift[2]), rr) * Kernel(Seen(c, shift[1]), cc)),
                            after_fpm[r][c])]),
                Num(4))
    IN  [back |-> WF(Array([rr \in 1..2 |-> Array([cc \in 1..2 |-> back(rr, cc)])]),
                     w.wavelength, w.dx),
         at_fpm |-> WF(at_fpm, w.wavelength, fpm_dx),
         after_fpm |-> WF(after_fpm, w.wavelength, fpm_dx)]

------------------------------------------------------------------------------
(* PSPDI.__init__                                                          *)

NoFunc ==
    [kind |-> "unsupported", duty |-> Zero, amplitude |-> Zero, offset |-> Zero,
     period |-> Zero, grating_rulings |-> Zero, epd |-> Zero]

\* the branch on grating_type with the closure f as the fallback
GratingFuncDefault(grating_type, grating_rulings, epd, grating_period) ==
    IF grating_type = Str_ronchi
    THEN [NoFunc EXCEPT !.kind = "rectangle_pulse", !.duty = Half, !.amplitude = Half,
                        !.offset = Half, !.period = grating_period]
    ELSE [NoFunc EXCEPT !.kind = "sin_amp", !.grating_rulings = grating_rulings,
                        !.epd = epd]

\* the branch on grating_type: partial(rectangle_pulse, ...), the closure f,
\* or the ValueError (kind = "unsupported")
GratingFunc(grating_type, grating_rulings, epd, grating_period) ==
    IF grating_type = Str_ronchi
    THEN [NoFunc EXCEPT !.kind = "rectangle_pulse", !.duty = Half, !.amplitude = Half,
                        !.offset = Half, !.period = grating_period]
    ELSE IF grating_type = Str_sin_amp
    THEN [NoFunc EXCEPT !.kind = "sin_amp", !.grating_rulings = grating_rulings,
                        !.epd = epd]
    ELSE NoFunc

\* the shift with its two branches exchanged
TestArmShiftSwapped(grating_axis, grating_rulings, flambd) ==
    IF grating_axis = Str_x
    THEN <<Zero, Mul(grating_rulings, flambd)>>
    ELSE <<Mul(grating_rulings, flambd), Zero>>

TestArmShift(grating_axis, grating_rulings, flambd) ==
    IF grating_axis = Str_x
    THEN <<Mul(grating_rulings, flambd), Zero>>
    ELSE <<Zero, Mul(grating_rulings, flambd)>>

\* the attributes __init__ sets, in its order
PSPDI_init(a) ==
    LET grating_type == lower(a.grating_type)
        grating_axis == lower(a.grating_axis)
        dx == Sub(a.x[1][2], a.x[1][1])
        fno == Div(a.efl, a.epd)
        flambd == Mul(fno, a.wavelength)
        grating_period == Div(a.epd, a.grating_rulings)
        f == GratingFunc(grating_type, a.grating_rulings, a.epd, grating_period)
        test_arm_eps == Div(a.test_arm_fov, Num(a.test_arm_samples))
        test_arm_fov_compute == Mul(Add(a.test_arm_fov, test_arm_eps), flambd)
        test_arm_mask_rsq ==
            LET h == Div(Mul(a.test_arm_fov, flambd), Num(2)) IN Mul(h, h)
        dx_pinhole == Div(a.pinhole_diameter, Num(a.pinhole_samples - 1))
        pinhole_fov_radius == Mul(Div(Num(a.pinhole_samples), Num(2)), dx_pinhole)
        ph == make_xy_grid(a.pinhole_samples, Mul(Num(2), pinhole_fov_radius))
        rphsq == Zip2(ph.x, ph.y, LAMBDA u, v : Add(Mul(u, u), Mul(v, v)))
        t == make_xy_grid(a.test_arm_samples, test_arm_fov_compute)
        rtsq == Zip2(t.x, t.y, LAMBDA u, v : Add(Mul(u, u), Mul(v, v)))
        hp == Div(a.pinhole_diameter, Num(2))
    IN  [x |-> a.x, y |-> a.y, dx |-> dx, efl |-> a.efl, epd |-> a.epd,
         wavelength |-> a.wavelength, fno |-> fno, flambd |-> flambd,
         grating_rulings |-> a.grating_rulings, grating_period |-> grating_period,
         grating_type |-> grating_type, grating_axis |-> grating_axis,
         grating_func |-> f,
         test_arm_offset |-> a.test_arm_offset, test_arm_fov |-> a.test_arm_fov,
         test_arm_samples |-> a.test_arm_samples, test_arm_eps |-> test_arm_eps,
         test_arm_fov_compute |-> test_arm_fov_compute,
         test_arm_mask_rsq |-> test_arm_mask_rsq,
         test_arm_transmissivity |-> a.test_arm_transmissivity,
         test_arm_shift |-> TestArmShift(grating_axis, a.grating_rulings, flambd),
         pinhole_diameter |-> Mul(a.pinhole_diameter, flambd),
         pinhole_samples |-> a.pinhole_samples, dx_pinhole |-> dx_pinhole,
         pinhole_fov_radius |-> pinhole_fov_radius,
         pinhole |-> circle(Mul(hp, hp), rphsq),
         dx_test_arm |-> Sub(t.x[1][2], t.x[1][1]),
         test_mask |-> circle(test_arm_mask_rsq, rtsq)]

\* __init__ raises before it returns when the grating type is unsupported
Raises(a) ==
    GratingFunc(lower(a.grating_type), a.grating_rulings, a.epd,
                Div(a.epd, a.grating_rulings)).kind = "unsupported"

------------------------------------------------------------------------------
(* PSPDI.forward_model                                                     *)

\* the closure f without the halving
sin_amp_at_unscaled(f, x) ==
    LET prefix == Div(f.grating_rulings, Div(f.epd, Num(2)))
    IN  Add(SinPi(Mul(prefix, x)), One)

\* the closure f of the sin_amp branch, at one coordinate: the angle
\* prefix*x is (grating_rulings*x/(epd/2)) * pi
sin_amp_at(f, x) ==
    LET prefix == Div(f.grating_rulings, Div(f.epd, Num(2)))
        sin == SinPi(Mul(prefix, x))
    IN  Div(Add(sin, One), Num(2))

\* self.grating_func(x)
grating_func(f, x) ==
    IF f.kind = "rectangle_pulse"
    THEN Map2(x, LAMBDA v : rectangle_pulse_at(v, f.duty, f.amplitude, f.offset, f.period))
    ELSE Map2(x, LAMBDA v : sin_amp_at(f, v))

\* the grid the grating is evaluated on: a phase shift of p*pi translates the
\* grid by p/2 periods
ShiftedGrid(grid, phase_shift, grating_period) ==
    IF phase_shift # Zero
    THEN Map2(grid, LAMBDA v : Add(v, Mul(Div(phase_shift, Num(2)), grating_period)))
    ELSE grid

\* forward_model up to the scaling of the test beam: the locals of the call
forward_beams(self, wave_in, phase_shift, debug) ==
    LET x == ShiftedGrid(self.x, phase_shift, self.grating_period)
        grating == grating_func(self.grating_func, x)
        i0 == TimesArray(wave_in, grating)
        i == IF ~i0.wf THEN WF(i0.data, self.wavelength, self.dx) ELSE i0
        ref == to_fpm_and_back(i, self.efl, self.pinhole, self.dx_pinhole, <<Zero, Zero>>)
        test == to_fpm_and_back(i, self.efl, self.test_mask, self.dx_test_arm,
                                self.test_arm_shift)
        test_beam == IF self.test_arm_transmissivity # One
                     THEN TimesScalar(test.back, self.test_arm_transmissivity)
                     ELSE test.back
    IN  [grating |-> grating, ref_beam |-> ref.back, test_beam |-> test_beam,
         ref_at_fpm |-> IF debug THEN ref.at_fpm ELSE NoWF,
         ref_after_fpm |-> IF debug THEN ref.after_fpm ELSE NoWF,
         test_at_fpm |-> IF debug THEN test.at_fpm ELSE NoWF,
         test_after_fpm |-> IF debug THEN test.after_fpm ELSE NoWF]

NoData == [data |-> <<>>, dx |-> Zero, wavelength |-> Zero]

NoReturn ==
    [kind |-> "none", intensity |-> NoData, total_field |-> NoWF,
     at_camera |-> [ref |-> NoWF, test |-> NoWF],
     at_fpm |-> [ref |-> <<NoWF, NoWF>>, test |-> <<NoWF, NoWF>>]]

\* the two beams read back from the instance
ReturnBeamsFromSelf(self, loc) == [ref |-> self.ref_beam, test |-> self.test_beam]

\* the two beams the returned value is built from: the locals of the call
ReturnBeams(self, loc) == [ref |-> loc.ref_beam, test |-> loc.test_beam]

\* forward_model from total_field on
forward_return(self, loc, debug) ==
    LET b == ReturnBeams(self, loc)
        total_field == PlusWF(b.ref, b.test)
    IN  IF debug
        THEN [NoReturn EXCEPT !.kind = "bundle", !.total_field = total_field,
                              !.at_camera = [ref |-> b.ref, test |-> b.test],
                              !.at_fpm = [ref |-> <<loc.ref_at_fpm, loc.ref_after_fpm>>,
                                          test |-> <<loc.test_at_fpm, loc.test_after_fpm>>]]
        ELSE [NoReturn EXCEPT !.kind = "intensity", !.intensity = intensity(total_field)]

------------------------------------------------------------------------------
(* evaluate_test_ref_arm_matching                                          *)

\* the diagnostic with the two arms exchanged in the ratio
evaluate_matching_inverted(debug_dict) ==
    LET pak == debug_dict.at_camera
        I1 == intensity(pak.ref)
        I2 == intensity(pak.test)
    IN  [ratio |-> Div(Mean2(I2.data), Mean2(I1.data)), I1 |-> I1, I2 |-> I2,
         debug_dict |-> debug_dict]

evaluate_test_ref_arm_matching(debug_dict) ==
    LET pak == debug_dict.at_camera
        I1 == intensity(pak.ref)
        I2 == intensity(pak.test)
        ratio == Div(Mean2(I1.data), Mean2(I2.data))
    IN  [ratio |-> ratio, I1 |-> I1, I2 |-> I2, debug_dict |-> debug_dict]

------------------------------------------------------------------------------
(* Calls of rectangle_pulse on every input of a bounded set.               *)

MaxPulseLen == 2

Coordinates == {Num(n) : n \in {-4, -1, 0, 1, 2, 3, 4, 8}}

Duties == {Zero, Rat(1, 4), Half, One}

Amplitudes == {Half, Num(2)}

Offsets == {Half, Num(-1)}

Periods == {Num(-4), Zero, Num(4), Num(6)}

SeqsUpTo(S, n) == UNION {[1..k -> S] : k \in 1..n}

NoPulse == [done |-> FALSE, y |-> <<>>]

PulseInputs ==
    [x : SeqsUpTo(Coordinates, MaxPulseLen), duty : Duties,
     amplitude : Amplitudes, offset : Offsets, period : Periods]

PulseCall ==
    /\ ~pulseOut.done
    /\ pulseOut' = [done |-> TRUE,
                    y |-> rectangle_pulse(pulseIn.x, pulseIn.duty, pulseIn.amplitude,
                                          pulseIn.offset, pulseIn.period)]
    /\ UNCHANGED pulseIn

------------------------------------------------------------------------------
(* Calls of degroot_formalism_psi: on frames synthesized for the Schwider  *)
(* shifts, and on arbitrary small stacks, with and without one frame.      *)

MaxFrames == 3

\* true phases, as coefficients of pi, in (-pi, pi]
SynthPhases == {Rat(k, 4) : k \in -3..4}

SynthBiases == {Zero, One, Num(5)}

SynthContrasts == {One, Num(3)}

\* intensity_m = bias + contrast*cos(truePhase - shift_m), for each pixel
SynthFrames(phases, bias, contrast, shifts) ==
    [m \in DOMAIN shifts |->
        BareArray([i \in DOMAIN phases |->
            Add(bias, Mul(contrast, CosPi(Sub(phases[i], shifts[m]))))])]

\* the shifts the frames are synthesized for: 0, pi/4, pi/2, 3pi/4, pi
NominalShifts == [i \in 1..5 |-> Rat(i - 1, 4)]

\* the nominal shifts, the table of the module, and the five shifts in steps
\* of pi/4 centred on 0
SynthShiftTables ==
    {NominalShifts, SCHWIDER_SHIFTS, [i \in 1..5 |-> Rat(i - 3, 4)]}

SynthInputs ==
    {[gs |-> SynthFrames(ph, b, c, sh), ss |-> SCHWIDER_SS,
      cs |-> SCHWIDER_CS, synth |-> TRUE, truePhase |-> ph] :
        ph \in [1..2 -> SynthPhases], b \in SynthBiases, c \in SynthContrasts,
        sh \in SynthShiftTables}

StackData == {<<One, Num(2)>>, <<NaN, Num(3)>>}

StackSpacings == {One, Num(2)}

WeightPairs == {<<0, 0>>, <<2, -1>>, <<0, 1>>}

StackFrames ==
    {BareArray(d) : d \in StackData}
        \cup {Frame(TRUE, d, dx, One) : d \in StackData, dx \in StackSpacings}

\* stacks are of one container type: all bare arrays or all RichData
OneKind(gs) == \A m \in DOMAIN gs : gs[m].rd = gs[1].rd

StackInputs ==
    {[gs |-> g, ss |-> [m \in DOMAIN w |-> w[m][1]], cs |-> [m \in DOMAIN w |-> w[m][2]],
      synth |-> FALSE, truePhase |-> <<>>] :
        <<g, w>> \in UNION {{gw \in [1..n -> StackFrames] \X [1..n -> WeightPairs] :
                                OneKind(gw[1])} : n \in 1..MaxFrames}}

NoPsi == [done |-> FALSE, m |-> 0, res |-> degroot_formalism_psi(<<>>, <<>>, <<>>)]

Remove(s, m) == [i \in 1..(Len(s) - 1) |-> IF i < m THEN s[i] ELSE s[i + 1]]

PsiCall ==
    /\ ~psiOut.done
    /\ psiOut' = [done |-> TRUE, m |-> 0,
                  res |-> degroot_formalism_psi(psiIn.gs, psiIn.ss, psiIn.cs)]
    /\ UNCHANGED <<psiIn, psiCut>>

\* the same call with the m-th frame and its two zero weights removed
PsiCallWithout(m) ==
    /\ ~psiCut.done
    /\ psiIn.ss[m] = 0 /\ psiIn.cs[m] = 0
    /\ psiCut' = [done |-> TRUE, m |-> m,
                  res |-> degroot_formalism_psi(Remove(psiIn.gs, m), Remove(psiIn.ss, m),
                                                Remove(psiIn.cs, m))]
    /\ UNCHANGED <<psiIn, psiOut>>

------------------------------------------------------------------------------
(* Construction and use of a PSPDI.  calls[c] is the forward_model call of  *)
(* caller c: its arguments, its position, its locals and what it returned.  *)

Callers == {1, 2}

Ones2(v) == <<<<v, v>>, <<v, v>>>>

\* the coordinate grids handed to __init__: x varies along a row, y from row
\* to row
GridX(lo, hi) == <<<<Num(lo), Num(hi)>>, <<Num(lo), Num(hi)>>>>

GridY(lo, hi) == <<<<Num(lo), Num(lo)>>, <<Num(hi), Num(hi)>>>>

GratingTypes ==
    {Str_ronchi, <<"R", "o", "n", "c", "h", "i">>, Str_sin_amp,
     <<"S", "I", "N", "_", "A", "M", "P">>, <<"s", "a", "w">>}

GratingAxes == {Str_x, Str_y, <<"Y">>}

Args(gt, ga, gr, lo, efl, off, tr) ==
    [x |-> GridX(lo, lo + 4), y |-> GridY(lo, lo + 4), efl |-> Num(efl), epd |-> Num(512),
     wavelength |-> One, test_arm_offset |-> Num(off), test_arm_fov |-> Num(64),
     test_arm_samples |-> 2, test_arm_transmissivity |-> tr,
     pinhole_diameter |-> Rat(1, 4), pinhole_samples |-> 2,
     grating_rulings |-> Num(gr), grating_type |-> gt, grating_axis |-> ga]

\* efl, test_arm_offset and test_arm_transmissivity
Alignments == {<<512, 64, Half>>, <<512, 60, One>>, <<1024, 64, One>>}

CtorArgs ==
    {Args(gt, ga, gr, lo, al[1], al[2], al[3]) :
        gt \in GratingTypes, ga \in GratingAxes, gr \in {64, 32}, lo \in {-2, 0},
        al \in Alignments}

ConcArgs ==
    {Args(gt, Str_x, 64, -2, 512, 64, Half) : gt \in {Str_ronchi, Str_sin_amp}}

Waves ==
    {Bare2(Ones2(<<0, 2, 1>>)),
     WF(<<<<One, Num(2)>>, <<Num(3), One>>>>, Num(2), Num(4))}

PhaseShifts == {Zero, Rat(1, 4), One}

NoInstance == [a \in {} |-> Zero]

NoLocals ==
    [grating |-> <<>>, ref_beam |-> NoWF, test_beam |-> NoWF, ref_at_fpm |-> NoWF,
     ref_after_fpm |-> NoWF, test_at_fpm |-> NoWF, test_after_fpm |-> NoWF]

NoMatching == [ratio |-> NaN, I1 |-> NoData, I2 |-> NoData, debug_dict |-> NoReturn]

IdleCall ==
    [pc |-> "idle", wave_in |-> NoWF, phase_shift |-> Zero, debug |-> FALSE,
     loc |-> NoLocals, ret |-> NoReturn, matching |-> NoMatching]

NotConstructed == [state |-> "none", args |-> Args(Str_ronchi, Str_x, 64, -2, 512, 64, One)]

Construct(a) ==
    /\ ctor.state = "none"
    /\ IF Raises(a)
       THEN ctor' = [state |-> "raised", args |-> a] /\ pspdi' = pspdi
       ELSE ctor' = [state |-> "constructed", args |-> a] /\ pspdi' = PSPDI_init(a)
    /\ UNCHANGED calls

\* forward_model up to the first write to the instance
Start(c, wave_in, phase_shift, debug) ==
    /\ ctor.state = "constructed"
    /\ calls[c].pc \in {"idle", "done", "evaluated"}
    /\ calls' = [calls EXCEPT ![c] =
                    [IdleCall EXCEPT !.pc = "store_ref", !.wave_in = wave_in,
                                     !.phase_shift = phase_shift, !.debug = debug,
                                     !.loc = forward_beams(pspdi, wave_in, phase_shift,
                                                           debug)]]
    /\ UNCHANGED <<ctor, pspdi>>

\* self.ref_beam = ref_beam
StoreRef(c) ==
    /\ calls[c].pc = "store_ref"
    /\ pspdi' = ("ref_beam" :> calls[c].loc.ref_beam) @@ pspdi
    /\ calls' = [calls EXCEPT ![c].pc = "store_test"]
    /\ UNCHANGED ctor

\* self.test_beam = test_beam
StoreTest(c) ==
    /\ calls[c].pc = "store_test"
    /\ pspdi' = ("test_beam" :> calls[c].loc.test_beam) @@ pspdi
    /\ calls' = [calls EXCEPT ![c].pc = "return"]
    /\ UNCHANGED ctor

\* total_field and the return
Return(c) ==
    /\ calls[c].pc = "return"
    /\ calls' = [calls EXCEPT ![c].pc = "done",
                              ![c].ret = forward_return(pspdi, calls[c].loc,
                                                        calls[c].debug)]
    /\ UNCHANGED <<ctor, pspdi>>

\* evaluate_test_ref_arm_matching on the bundle the call returned
Evaluate(c) ==
    /\ calls[c].pc = "done"
    /\ calls[c].ret.kind = "bundle"
    /\ LET m == evaluate_test_ref_arm_matching(calls[c].ret)
       IN  calls' = [calls EXCEPT ![c].pc = "evaluated", ![c].matching = m,
                                  ![c].ret = m.debug_dict]
    /\ UNCHANGED <<ctor, pspdi>>

vars == <<pulseIn, pulseOut, psiIn, psiOut, psiCut, ctor, pspdi, calls>>

PulseNext == PulseCall /\ UNCHANGED <<psiVars, pdiVars>>

PulseInit ==
    /\ pulseIn \in PulseInputs
    /\ pulseOut = NoPulse
    /\ psiIn = <<>> /\ psiOut = NoPsi /\ psiCut = NoPsi
    /\ ctor = NotConstructed /\ pspdi = NoInstance /\ calls = [c \in Callers |-> IdleCall]

SpecPulse == PulseInit /\ [][PulseNext]_vars

PsiNext ==
    \/ PsiCall /\ UNCHANGED <<pulseVars, pdiVars>>
    \/ \E m \in DOMAIN psiIn.gs : PsiCallWithout(m) /\ UNCHANGED <<pulseVars, pdiVars>>

PsiInit ==
    /\ psiIn \in SynthInputs \cup StackInputs
    /\ psiOut = NoPsi
    /\ psiCut = NoPsi
    /\ pulseIn = <<>> /\ pulseOut = NoPulse
    /\ ctor = NotConstructed /\ pspdi = NoInstance /\ calls = [c \in Callers |-> IdleCall]

SpecPSI == PsiInit /\ [][PsiNext]_vars

\* one caller: construction, then forward_model calls one after the other
Init ==
    /\ ctor = NotConstructed /\ pspdi = NoInstance /\ calls = [c \in Callers |-> IdleCall]
    /\ pulseIn = <<>> /\ pulseOut = NoPulse
    /\ psiIn = <<>> /\ psiOut = NoPsi /\ psiCut = NoPsi

Next ==
    \/ \E a \in CtorArgs : Construct(a) /\ UNCHANGED <<pulseVars, psiVars>>
    \/ \E w \in Waves, p \in PhaseShifts, d \in BOOLEAN :
           Start(1, w, p, d) /\ UNCHANGED <<pulseVars, psiVars>>
    \/ StoreRef(1) /\ UNCHANGED <<pulseVars, psiVars>>
    \/ StoreTest(1) /\ UNCHANGED <<pulseVars, psiVars>>
    \/ Return(1) /\ UNCHANGED <<pulseVars, psiVars>>
    \/ Evaluate(1) /\ UNCHANGED <<pulseVars, psiVars>>

Spec == Init /\ [][Next]_vars

\* two callers of one instance, their steps interleaved
ConcInit ==
    /\ ctor \in {[state |-> "constructed", args |-> a] : a \in ConcArgs}
    /\ pspdi = PSPDI_init(ctor.args)
    /\ calls = [c \in Callers |-> IdleCall]
    /\ pulseIn = <<>> /\ pulseOut = NoPulse
    /\ psiIn = <<>> /\ psiOut = NoPsi /\ psiCut = NoPsi

ConcNext ==
    \/ \E c \in Callers, w \in Waves, p \in {Zero, One}, d \in BOOLEAN :
           Start(c, w, p, d) /\ UNCHANGED <<pulseVars, psiVars>>
    \/ \E c \in Callers : StoreRef(c) /\ UNCHANGED <<pulseVars, psiVars>>
    \/ \E c \in Callers : StoreTest(c) /\ UNCHANGED <<pulseVars, psiVars>>
    \/ \E c \in Callers : Return(c) /\ UNCHANGED <<pulseVars, psiVars>>
    \/ \E c \in Callers : Evaluate(c) /\ UNCHANGED <<pulseVars, psiVars>>

SpecConc == ConcInit /\ [][ConcNext]_vars

------------------------------------------------------------------------------
(* Properties.                                                             *)

\* x wrapped into [0, period), for period > 0: the w in [0, period) that
\* differs from x by a whole number of periods
Wrapped(x, period) ==
    CHOOSE w \in {Sub(x, Mul(Num(k), period)) : k \in -8..8} :
        LessEq(Zero, w) /\ Less(w, period)

PulseHi == Add(pulseIn.offset, pulseIn.amplitude)

PulseLo == Sub(pulseIn.offset, pulseIn.amplitude)

\* C7 as stated: rectangle_pulse(0) is the offset for any duty, amplitude,
\* offset and period, and every other coordinate maps to the high level when
\* its wrapped value is below duty*period and to the low level otherwise.
C7_OnlyZeroIsMid ==
    pulseOut.done =>
        \A i \in DOMAIN pulseIn.x :
            /\ pulseIn.x[i] = Zero => pulseOut.y[i] = pulseIn.offset
            /\ (pulseIn.x[i] # Zero /\ Sgn(pulseIn.period) = 1) =>
                 pulseOut.y[i] =
                     IF Less(Wrapped(pulseIn.x[i], pulseIn.period),
                             Mul(pulseIn.duty, pulseIn.period))
                     THEN PulseHi ELSE PulseLo

\* C7 amended: for a nonzero period rectangle_pulse(0) is the offset; for a
\* positive period every coordinate whose wrapped value is below the machine
\* epsilon (0 and each whole multiple of the period) maps to the offset, and
\* every other coordinate maps to the high level when its wrapped value is
\* below duty*period and to the low level otherwise.
C7_WrappedZeroIsMid ==
    pulseOut.done =>
        \A i \in DOMAIN pulseIn.x :
            /\ (pulseIn.x[i] = Zero /\ Sgn(pulseIn.period) # 0) =>
                 pulseOut.y[i] = pulseIn.offset
            /\ Sgn(pulseIn.period) = 1 =>
                 pulseOut.y[i] =
                     IF Less(Wrapped(pulseIn.x[i], pulseIn.period), Num(Eps))
                     THEN pulseIn.offset
                     ELSE IF Less(Wrapped(pulseIn.x[i], pulseIn.period),
                                  Mul(pulseIn.duty, pulseIn.period))
                     THEN PulseHi ELSE PulseLo

\* a call on an array holding 0, a whole period and a coordinate inside the
\* duty window has returned
C7_Witness ==
    /\ pulseOut.done
    /\ Sgn(pulseIn.period) = 1
    /\ \E i \in DOMAIN pulseIn.x :
           pulseIn.x[i] = pulseIn.period /\ pulseOut.y[i] = pulseIn.offset
    /\ \E i \in DOMAIN pulseIn.x :
           pulseIn.x[i] = Num(3) /\ pulseOut.y[i] = PulseHi

SameMetadata(gs) ==
    \A m \in DOMAIN gs :
        /\ gs[m].rd = gs[1].rd
        /\ gs[m].dx = gs[1].dx
        /\ gs[m].wavelength = gs[1].wavelength

\* C3 as stated: for every stack and every index m whose two weights are
\* zero, the call returns what the call without the m-th frame and weights
\* returns (num, den and the phase alike).
C3_ZeroWeightFrameRemovable ==
    (psiOut.done /\ psiCut.done) => psiOut.res = psiCut.res

\* C3 amended: the same, for stacks of at least two frames that share their
\* container type and metadata (so that a frame is left once one is removed,
\* and the first frame's metadata is every frame's).
C3_ZeroWeightFrameRemovableOfTwo ==
    (psiOut.done /\ psiCut.done /\ Len(psiIn.gs) >= 2 /\ SameMetadata(psiIn.gs)) =>
        psiOut.res = psiCut.res

\* both calls have returned for a RichData stack whose zero-weighted frame
\* holds a nan and whose sums are finite
C3_Witness ==
    /\ psiOut.done /\ psiCut.done
    /\ Len(psiIn.gs) >= 2 /\ SameMetadata(psiIn.gs)
    /\ psiIn.gs[1].rd
    /\ \E i \in DOMAIN psiIn.gs[psiCut.m].data : IsNaN(psiIn.gs[psiCut.m].data[i])
    /\ \A i \in DOMAIN psiOut.res.num :
           IsFinite(psiOut.res.num[i]) /\ Sgn(psiOut.res.num[i]) # 0

\* the bracket b of an angle holds the angle t*pi
InBracket(b, t) == LessEq(b.lo, t) /\ LessEq(t, b.hi)

\* C2: frames synthesized as bias + contrast*cos(truePhase - shift_m) for the
\* Schwider shifts, reconstructed with SCHWIDER_SS and SCHWIDER_CS, give back
\* truePhase (modulo 2 pi) at every pixel.
C2_SchwiderRoundTrip ==
    (psiIn.synth /\ psiOut.done) =>
        \A i \in DOMAIN psiIn.truePhase :
            \/ InBracket(psiOut.res.out.data[i], psiIn.truePhase[i])
            \/ InBracket(psiOut.res.out.data[i], Sub(psiIn.truePhase[i], Num(2)))

Supported(grating_type) == lower(grating_type) \in {Str_ronchi, Str_sin_amp}

\* C1: construction with a grating_type whose lower-cased value is neither
\* 'ronchi' nor 'sin_amp' raises and leaves no instance, so no forward_model
\* call ever runs with an unsupported grating; 'ronchi' and 'sin_amp' in any
\* letter case construct.
C1_UnsupportedGratingRaises ==
    /\ ctor.state = "raised" =>
           ~Supported(ctor.args.grating_type) /\ DOMAIN pspdi = {}
    /\ ctor.state = "constructed" =>
           /\ Supported(ctor.args.grating_type)
           /\ pspdi.grating_type \in {Str_ronchi, Str_sin_amp}
           /\ pspdi.grating_func.kind \in {"rectangle_pulse", "sin_amp"}
    /\ \A c \in Callers : calls[c].pc # "idle" => ctor.state = "constructed"

\* the constructor was called with an unsupported grating type and raised
C1_Witness ==
    /\ ctor.state = "raised"
    /\ ctor.args.grating_type = <<"s", "a", "w">>

InUnit(v) == LessEq(Zero, v) /\ LessEq(v, One)

\* C6: every transmission value of the grating a forward_model call
\* evaluates, sinusoidal or Ronchi, at any coordinate and phase shift, lies
\* in [0, 1].
C6_GratingRange ==
    \A c \in Callers :
        calls[c].pc # "idle" =>
            \A r \in DOMAIN calls[c].loc.grating :
                \A k \in DOMAIN calls[c].loc.grating[r] :
                    InUnit(calls[c].loc.grating[r][k])

\* a call with a phase shift of pi/4 evaluated the sinusoidal grating at a
\* coordinate where it is none of 0, 1/2 and 1
C6_Witness ==
    /\ calls[1].pc # "idle"
    /\ calls[1].phase_shift = Rat(1, 4)
    /\ pspdi.grating_func.kind = "sin_amp"
    /\ calls[1].loc.grating[1][1] \notin {Zero, Half, One}

\* C10: the grating a forward_model call applies is evaluated, and phase
\* shifted, over the x grid when grating_axis is 'x' and over the y grid when
\* it is 'y'.
C10_GratingAlongAxis ==
    \A c \in Callers :
        calls[c].pc # "idle" =>
            calls[c].loc.grating =
                grating_func(pspdi.grating_func,
                             ShiftedGrid(IF pspdi.grating_axis = Str_x
                                         THEN pspdi.x ELSE pspdi.y,
                                         calls[c].phase_shift, pspdi.grating_period))

\* C4: once the instance is constructed no step changes any of its
\* attributes.
C4_NoAttributeWritten ==
    [][ctor.state = "constructed" => pspdi' = pspdi]_vars

\* what forward_model returns for the given arguments on the instance as
\* __init__ left it
Fresh(wave_in, phase_shift, debug) ==
    LET self == PSPDI_init(ctor.args)
        loc == forward_beams(self, wave_in, phase_shift, debug)
        stored == ("test_beam" :> loc.test_beam) @@ ("ref_beam" :> loc.ref_beam) @@ self
    IN  forward_return(stored, loc, debug)

\* C5: whatever calls came before and however another call is interleaved,
\* a forward_model call returns what its own arguments give on the instance
\* as constructed.
C5_CallsIndependent ==
    \A c \in Callers :
        calls[c].pc \in {"done", "evaluated"} =>
            calls[c].ret = Fresh(calls[c].wave_in, calls[c].phase_shift, calls[c].debug)

\* caller 1 has returned while the instance holds the beams of the call of
\* caller 2, which differ from its own
C5_Witness ==
    /\ calls[1].pc = "done"
    /\ calls[2].pc = "return"
    /\ pspdi.ref_beam = calls[2].loc.ref_beam
    /\ pspdi.test_beam = calls[2].loc.test_beam
    /\ pspdi.ref_beam # calls[1].loc.ref_beam
    /\ pspdi.test_beam # calls[1].loc.test_beam

\* the mean of the squared magnitudes of the four samples of a field
MeanIntensity(w) ==
    Div(Add(Add(Mul(w.data[1][1], w.data[1][1]), Mul(w.data[1][2], w.data[1][2])),
            Add(Mul(w.data[2][1], w.data[2][1]), Mul(w.data[2][2], w.data[2][2]))),
        Num(4))

\* C9: on a debug bundle of forward_model the diagnostic returns the mean
\* reference intensity at the camera over the mean test intensity and leaves
\* the bundle as the call built it; means of 2 and 1/2 give the ratio 4.
C9_ArmRatio ==
    \A c \in Callers :
        calls[c].pc = "evaluated" =>
            LET ref == MeanIntensity(calls[c].loc.ref_beam)
                test == MeanIntensity(calls[c].loc.test_beam)
            IN  /\ calls[c].matching.ratio = Div(ref, test)
                /\ calls[c].ret = forward_return(pspdi, calls[c].loc, TRUE)
                /\ (ref = Num(2) /\ test = Half) => calls[c].matching.ratio = Num(4)

\* the diagnostic ran on a bundle whose mean reference intensity is 2 and
\* whose mean test intensity is 1/2
C9_Witness ==
    /\ calls[1].pc = "evaluated"
    /\ MeanIntensity(calls[1].ret.at_camera.ref) = Num(2)
    /\ MeanIntensity(calls[1].ret.at_camera.test) = Half
    /\ calls[1].matching.ratio = Num(4)

====
